---- MODULE Spec2Model ----
(***************************************************************************)
(* Model of clonev.py: the layout of clone bands (create_clones), the     *)
(* evenly spaced sampler (linspace) and the contour tracer (Clone.path).  *)
(* Python numbers are modelled as exact rationals [n, d] in lowest terms. *)
(***************************************************************************)
EXTENDS Integers, Sequences, FiniteSets, TLC

\* ---------------------------------------------------------------- bounds
\* at most MaxT time points and MaxK sub-clones, MaxSize of them together
MaxT == 2
MaxK == 2
MaxSize == 4
\* at most MaxSamples samples in a traced Clone, times on a grid of step 1/PathDen
MaxSamples == 3
PathDen == 1

\* ------------------------------------------------------ exact arithmetic
Abs(a) == IF a < 0 THEN -a ELSE a

RECURSIVE GCD(_, _)
GCD(a, b) == IF b = 0 THEN a ELSE GCD(b, a % b)

Norm(n, d) == LET g == GCD(Abs(n), d) IN [n |-> n \div g, d |-> d \div g]

Zero == Norm(0, 1)
One == Norm(1, 1)
Half == Norm(1, 2)
RInt(k) == Norm(k, 1)

RAdd(a, b) == Norm(a.n * b.d + b.n * a.d, a.d * b.d)
RNeg(a) == [n |-> -a.n, d |-> a.d]
RSub(a, b) == RAdd(a, RNeg(b))
RMul(a, b) == Norm(a.n * b.n, a.d * b.d)
\* a / b for b # 0 (Python raises ZeroDivisionError otherwise; the callers test it)
RDiv(a, b) == IF b.n > 0 THEN Norm(a.n * b.d, a.d * b.n)
                         ELSE Norm(-(a.n * b.d), a.d * (-b.n))
RLt(a, b) == a.n * b.d < b.n * a.d
RLe(a, b) == a.n * b.d <= b.n * a.d
RMin(a, b) == IF RLt(b, a) THEN b ELSE a

RECURSIVE SumSeq(_)
SumSeq(s) == IF s = <<>> THEN Zero ELSE RAdd(Head(s), SumSeq(Tail(s)))

\* ------------------------------------------------------------- variables
VARIABLES
    freqs,      \* argument of create_clones
    pc,         \* position in create_clones
    err,        \* exception raised by create_clones ("none" if none)
    ntimes,     \* local ntimes
    i,          \* index of the overlap loop (0-based, as in the code)
    clone_ys,   \* local clone_ys, one row per time index
    clone_idx,  \* local clone_idx
    xs, ys, ws, \* locals of the clone under construction (xs before normalization)
    clones,     \* the list of Clone objects built so far
    samples,    \* the Clone that Clone.path traces: [xs, ys, ws]
    ppc,        \* position in Clone.path
    cur,        \* locals x0, y0, w0 of Clone.path
    k,          \* position in the loop Clone.path is running
    ops         \* the calls made on the cairo context, in order

vars == <<freqs, pc, err, ntimes, i, clone_ys, clone_idx, xs, ys, ws, clones,
          samples, ppc, cur, k, ops>>
layoutVars == <<freqs, pc, err, ntimes, i, clone_ys, clone_idx, xs, ys, ws, clones>>
pathVars == <<samples, ppc, cur, k, ops>>

\* ---------------------------------------------------------------- inputs
Freq == {Zero, Half, One}
Shapes == {sh \in (0..MaxT) \X (0..MaxK) : sh[1] + sh[2] <= MaxSize}
\* clone 0 and K sub-clones, every series of length T
Matrices(T, K) == [1..(K + 1) -> [1..T -> Freq]]
\* the matrix m with the last value of series s missing
DropLast(m, s) ==
    [j \in 1..Len(m) |-> IF j = s THEN SubSeq(m[j], 1, Len(m[j]) - 1) ELSE m[j]]
\* the inputs: the well-shaped matrices and those with one series a value short
FrequencyMatrix ==
    UNION {Matrices(sh[1], sh[2]) \cup
           {DropLast(m, s) : m \in Matrices(sh[1], sh[2]),
                             s \in (IF sh[1] = 0 THEN {} ELSE 1..(sh[2] + 1))}
           : sh \in Shapes}

tumour_freq == freqs[1]
clone_freqs == Tail(freqs)
NClones == Len(freqs) - 1

\* a structurally valid matrix: clone 0 plus K >= 1 sub-clones, all of length T >= 1
Valid(m) == /\ Len(m) >= 2
            /\ Len(m[1]) >= 1
            /\ \A j \in 1..Len(m) : Len(m[j]) = Len(m[1])
NTimePoints == Len(freqs[1])

\* ---------------------------------------------------------------- linspace
\* a slip: the step taken as (b - a)/n
LinspaceStepOverN(a, b, n) ==
    IF n < 2 THEN b
    ELSE LET diff == RDiv(RSub(b, a), RInt(n))
         IN [j \in 1..n |-> RAdd(RMul(diff, RInt(j - 1)), a)]

Linspace(a, b, n) ==
    IF n < 2 THEN b
    ELSE LET diff == RDiv(RSub(b, a), RInt(n - 1))
         IN [j \in 1..n |-> RAdd(RMul(diff, RInt(j - 1)), a)]

\* ----------------------------------------------------------- create_clones
Spacing(purity, freq_sum) == RMin(RSub(purity, freq_sum), Zero)

\* a slip: the under-filling stack shifted by (purity - freq_sum) * 0.5
ShiftByPurityGap(purity, freq_sum) ==
    IF RLe(purity, freq_sum) THEN RMul(RSub(One, purity), Half)
    ELSE RMul(RSub(purity, freq_sum), Half)

Shift(purity, freq_sum) ==
    IF RLe(purity, freq_sum) THEN RMul(RSub(One, purity), Half)
    ELSE RMul(RSub(One, freq_sum), Half)

\* gs = [0] + [f/freq_sum2 for f in fs[1:]]
DivisionByZero(fs) == Len(fs) >= 2 /\ SumSeq(Tail(fs)) = Zero
Weights(fs) == LET freq_sum2 == SumSeq(Tail(fs))
               IN [j \in 1..Len(fs) |-> IF j = 1 THEN Zero ELSE RDiv(fs[j], freq_sum2)]

\* a slip: the lower bound tested on the center instead of the lower edge
LowerBoundOnCenter(y, f) == IF RLt(y, RNeg(Half)) THEN Zero ELSE y

\* the lower bound used as a hack: if y - f/2 < -0.5: y = 0
LowerBound(y, f) == IF RLt(RSub(y, RMul(f, Half)), RNeg(Half)) THEN Zero ELSE y

\* the loop over zip(fs, gs), from position j with running total cumy
RECURSIVE CalcYs(_, _, _, _, _, _)
CalcYs(fs, gs, spacing, shift, j, cumy) ==
    IF j > Len(fs) THEN <<>>
    ELSE LET f == fs[j]
             cumy2 == RAdd(cumy, RAdd(f, RMul(spacing, gs[j])))
             y == RSub(RSub(RAdd(cumy2, shift), Half), RMul(f, Half))
         IN <<LowerBound(y, f)>> \o CalcYs(fs, gs, spacing, shift, j + 1, cumy2)

\* the body of the loop over i, once no index is out of range and freq_sum2 # 0
OverlapRow(fs, purity) ==
    LET freq_sum == SumSeq(fs)
    IN CalcYs(fs, Weights(fs), Spacing(purity, freq_sum), Shift(purity, freq_sum), 1, Zero)

\* a slip: (1 + f) in place of (1 - f)
EmergenceTimePlus(f, t) == RAdd(RMul(RAdd(One, f), Half), RInt(t))
EmergenceTime(f, t) == RAdd(RMul(RSub(One, f), Half), RInt(t))
\* a slip: the observation placed at t instead of t + 1
ObsTimeAtT(t) == RInt(t)
ObsTime(t) == RInt(t + 1)
HalfWidth(f) == RMul(f, Half)
Normalize(x, n) == RDiv(x, RInt(n - 1))

CloneAll(n, tf) ==
    [xs |-> Linspace(Zero, One, n),
     ys |-> [j \in 1..n |-> Zero],
     ws |-> <<Zero>> \o [j \in 1..Len(tf) |-> RMul(tf[j], Half)]]

Raise(e) == /\ pc' = "raised"
            /\ err' = e

Init == /\ freqs \in FrequencyMatrix
        /\ pc = "begin"
        /\ err = "none"
        /\ ntimes = 0
        /\ i = 0
        /\ clone_ys = <<>>
        /\ clone_idx = 0
        /\ xs = <<>> /\ ys = <<>> /\ ws = <<>>
        /\ clones = <<>>
        /\ samples = [xs |-> <<>>, ys |-> <<>>, ws |-> <<>>]
        /\ ppc = "idle"
        /\ cur = <<Zero, Zero, Zero>>
        /\ k = 0
        /\ ops = <<>>

\* tumour_freq = freqs[0]; clone_freqs = freqs[1:]; ntimes = len(clone_freqs[0]) + 1
Begin ==
    /\ pc = "begin"
    /\ IF NClones = 0
       THEN /\ Raise("IndexError")
            /\ UNCHANGED ntimes
       ELSE /\ ntimes' = Len(clone_freqs[1]) + 1
            /\ pc' = "overlap"
            /\ UNCHANGED err
    /\ UNCHANGED <<freqs, i, clone_ys, clone_idx, xs, ys, ws, clones>>
    /\ UNCHANGED pathVars

\* one iteration of: for i in range(ntimes-1)
OverlapStep ==
    /\ pc = "overlap"
    /\ i < ntimes - 1
    /\ IF \/ \E j \in 1..NClones : Len(clone_freqs[j]) < i + 1
          \/ Len(tumour_freq) < i + 1
       THEN /\ Raise("IndexError")
            /\ UNCHANGED <<i, clone_ys>>
       ELSE LET fs == [j \in 1..NClones |-> clone_freqs[j][i + 1]]
                purity == tumour_freq[i + 1]
            IN IF DivisionByZero(fs)
               THEN /\ Raise("ZeroDivisionError")
                    /\ UNCHANGED <<i, clone_ys>>
               ELSE /\ clone_ys' = Append(clone_ys, OverlapRow(fs, purity))
                    /\ i' = i + 1
                    /\ UNCHANGED <<pc, err>>
    /\ UNCHANGED <<freqs, ntimes, clone_idx, xs, ys, ws, clones>>
    /\ UNCHANGED pathVars

\* clone_all = Clone(...); clones = [clone_all]; clone_idx = 0
BuildCloneAll ==
    /\ pc = "overlap"
    /\ i = ntimes - 1
    /\ clones' = <<CloneAll(ntimes, tumour_freq)>>
    /\ clone_idx' = 0
    /\ pc' = "samples"
    /\ UNCHANGED <<freqs, err, ntimes, i, clone_ys, xs, ys, ws>>
    /\ UNCHANGED pathVars

\* the loop "for f in clone_freq" of the clone at clone_idx
BuildSamples ==
    /\ pc = "samples"
    /\ clone_idx < NClones
    /\ LET clone_freq == clone_freqs[clone_idx + 1]
           n == Len(clone_freq)
       IN IF n > Len(clone_ys)
          THEN /\ Raise("IndexError")
               /\ UNCHANGED <<xs, ys, ws>>
          ELSE /\ xs' = IF n = 0 THEN <<>>
                        ELSE <<EmergenceTime(clone_freq[1], 0)>>
                             \o [t \in 1..n |-> ObsTime(t - 1)]
               /\ ys' = IF n = 0 THEN <<>>
                        ELSE <<Zero>> \o [t \in 1..n |-> clone_ys[t][clone_idx + 1]]
               /\ ws' = IF n = 0 THEN <<>>
                        ELSE <<Zero>> \o [t \in 1..n |-> HalfWidth(clone_freq[t])]
               /\ pc' = "normalize"
               /\ UNCHANGED err
    /\ UNCHANGED <<freqs, ntimes, i, clone_ys, clone_idx, clones>>
    /\ UNCHANGED pathVars

\* xs = [x/float(ntimes-1) for x in xs]; clones.append(Clone(xs, ys, ws)); clone_idx += 1
NormalizeAppend ==
    /\ pc = "normalize"
    /\ clones' = Append(clones, [xs |-> [j \in 1..Len(xs) |-> Normalize(xs[j], ntimes)],
                                 ys |-> ys, ws |-> ws])
    /\ clone_idx' = clone_idx + 1
    /\ pc' = "samples"
    /\ UNCHANGED <<freqs, err, ntimes, i, clone_ys, xs, ys, ws>>
    /\ UNCHANGED pathVars

\* return clones
Return ==
    /\ pc = "samples"
    /\ clone_idx = NClones
    /\ pc' = "returned"
    /\ UNCHANGED <<freqs, err, ntimes, i, clone_ys, clone_idx, xs, ys, ws, clones>>
    /\ UNCHANGED pathVars

Next == \/ Begin
        \/ OverlapStep
        \/ BuildCloneAll
        \/ BuildSamples
        \/ NormalizeAppend
        \/ Return

Spec == Init /\ [][Next]_vars

\* -------------------------------------------------------------- Clone.path
Coord == {Norm(j, PathDen) : j \in 0..PathDen}
SampleX == Coord
SampleY == {Zero, Half}
SampleW == {Zero, Half}
SampleSeqs == UNION {[xs : [1..m -> SampleX], ys : [1..m -> SampleY], ws : [1..m -> SampleW]]
                     : m \in 1..MaxSamples}

NSamples == Len(samples.xs)
SampleAt(j) == <<samples.xs[j], samples.ys[j], samples.ws[j]>>

\* a slip: the top half drawn over zip(xs, ys, ws)
TopOrderAll(n) == [j \in 1..n |-> j]
\* zip(xs[1:], ys[1:], ws[1:]) as positions in the sample list (1-based)
TopOrder(n) == [j \in 1..(n - 1) |-> j + 1]
\* a slip: the bottom half drawn over the reversed xs[1:]
BottomOrderFromLast(n) == [j \in 1..(n - 1) |-> n - j + 1]
\* zip(reversed(xs[:-1]), reversed(ys[:-1]), reversed(ws[:-1]))
BottomOrder(n) == [j \in 1..(n - 1) |-> n - j]

Point(x, y) == <<x, y>>
MoveTo(x, y) == [op |-> "move_to", pts |-> <<Point(x, y)>>]
LineTo(x, y) == [op |-> "line_to", pts |-> <<Point(x, y)>>]
CurveTo(x1, y1, x2, y2, x3, y3) ==
    [op |-> "curve_to", pts |-> <<Point(x1, y1), Point(x2, y2), Point(x3, y3)>>]
ClosePath == [op |-> "close_path", pts |-> <<>>]

\* x_mid = (x + x0) / 2; cr.curve_to(x_mid, y0 - w0, x_mid, y - w, x, y - w)
TopCurve(prev, s) ==
    LET x_mid == RMul(RAdd(s[1], prev[1]), Half)
    IN CurveTo(x_mid, RSub(prev[2], prev[3]), x_mid, RSub(s[2], s[3]), s[1], RSub(s[2], s[3]))

\* a slip: the first control point left on the top edge
BottomCurveTopControl(prev, s) ==
    LET x_mid == RMul(RAdd(s[1], prev[1]), Half)
    IN CurveTo(x_mid, RSub(prev[2], prev[3]), x_mid, RAdd(s[2], s[3]), s[1], RAdd(s[2], s[3]))

\* x_mid = (x + x0) / 2; cr.curve_to(x_mid, y0 + w0, x_mid, y + w, x, y + w)
BottomCurve(prev, s) ==
    LET x_mid == RMul(RAdd(s[1], prev[1]), Half)
    IN CurveTo(x_mid, RAdd(prev[2], prev[3]), x_mid, RAdd(s[2], s[3]), s[1], RAdd(s[2], s[3]))

PathInit == /\ freqs = <<<<>>>>
            /\ pc = "idle"
            /\ err = "none"
            /\ ntimes = 0
            /\ i = 0
            /\ clone_ys = <<>>
            /\ clone_idx = 0
            /\ xs = <<>> /\ ys = <<>> /\ ws = <<>>
            /\ clones = <<>>
            /\ samples \in SampleSeqs
            /\ ppc = "start"
            /\ cur = <<Zero, Zero, Zero>>
            /\ k = 0
            /\ ops = <<>>

\* x0, y0, w0 = xs[0], ys[0], ws[0]; cr.move_to(x0, y0 - w0)
PathMoveTo ==
    /\ ppc = "start"
    /\ cur' = SampleAt(1)
    /\ ops' = <<MoveTo(samples.xs[1], RSub(samples.ys[1], samples.ws[1]))>>
    /\ ppc' = "top"
    /\ k' = 1
    /\ UNCHANGED samples
    /\ UNCHANGED layoutVars

\* one iteration of the loop drawing the top half
PathTopCurve ==
    /\ ppc = "top"
    /\ k <= Len(TopOrder(NSamples))
    /\ LET s == SampleAt(TopOrder(NSamples)[k])
       IN /\ ops' = Append(ops, TopCurve(cur, s))
          /\ cur' = s
    /\ k' = k + 1
    /\ UNCHANGED <<samples, ppc>>
    /\ UNCHANGED layoutVars

\* cr.line_to(xs[-1], ys[-1] + ws[-1])
PathLineTo ==
    /\ ppc = "top"
    /\ k > Len(TopOrder(NSamples))
    /\ ops' = Append(ops, LineTo(samples.xs[NSamples],
                                 RAdd(samples.ys[NSamples], samples.ws[NSamples])))
    /\ ppc' = "bottom"
    /\ k' = 1
    /\ UNCHANGED <<samples, cur>>
    /\ UNCHANGED layoutVars

\* one iteration of the loop drawing the bottom half
PathBottomCurve ==
    /\ ppc = "bottom"
    /\ k <= Len(BottomOrder(NSamples))
    /\ LET s == SampleAt(BottomOrder(NSamples)[k])
       IN /\ ops' = Append(ops, BottomCurve(cur, s))
          /\ cur' = s
    /\ k' = k + 1
    /\ UNCHANGED <<samples, ppc>>
    /\ UNCHANGED layoutVars

\* cr.close_path()
PathClose ==
    /\ ppc = "bottom"
    /\ k > Len(BottomOrder(NSamples))
    /\ ops' = Append(ops, ClosePath)
    /\ ppc' = "done"
    /\ UNCHANGED <<samples, cur, k>>
    /\ UNCHANGED layoutVars

PathNext == \/ PathMoveTo
            \/ PathTopCurve
            \/ PathLineTo
            \/ PathBottomCurve
            \/ PathClose

PathSpec == PathInit /\ [][PathNext]_vars

\* ================================================================ properties
InUnit(x) == RLe(Zero, x) /\ RLe(x, One)
SubClones == 2..Len(clones)
Row(r) == [j \in 1..NClones |-> clone_freqs[j][r]]
HalfOf(x) == Norm(x.n, 2 * x.d)

\* C1: for a valid matrix, every sample time of every Clone built by
\* create_clones lies in [0,1] and the times of a clone never decrease,
\* the step from the emergence sample to the first observation included.
C1_TimesInUnitAndSorted ==
    Valid(freqs) =>
        \A c \in 1..Len(clones) :
            /\ \A j \in 1..Len(clones[c].xs) : InUnit(clones[c].xs[j])
            /\ \A j \in 1..(Len(clones[c].xs) - 1) : RLe(clones[c].xs[j], clones[c].xs[j + 1])

C1_Witness ==
    /\ Valid(freqs) /\ pc = "returned"
    /\ Len(clones) = 3 /\ NTimePoints = 2
    /\ RLt(Zero, clones[2].xs[1]) /\ RLt(clones[2].xs[1], clones[2].xs[2])

BadShape(m) == \E a, b \in 1..Len(m) : Len(m[a]) # Len(m[b])
\* fewer than 2 time points, counted as ntimes counts them (the implicit start included)
EmptyInput(m) == Len(m) < 2 \/ Len(m[2]) + 1 < 2

\* C2: a matrix whose series differ in length, or with fewer than 2 time
\* points or no sub-clone, makes create_clones fail before any Clone is
\* built, and no clone list is returned.
C2_RejectsBadInput ==
    (BadShape(freqs) \/ EmptyInput(freqs)) => (clones = <<>> /\ pc # "returned")

\* C3: for a structurally valid matrix with frequencies in [0,1],
\* create_clones never raises: no numerical error is surfaced.
C3_NeverRaises ==
    Valid(freqs) => pc # "raised"

\* C4 as stated: the emergence sample has half-width 0, center 0 and time
\* (1 - f) * 0.5, strictly between the step 0 and the first observation at 1.
C4_EmergenceStrictlyBetween ==
    (Valid(freqs) /\ pc = "normalize") =>
        /\ ys[1] = Zero /\ ws[1] = Zero
        /\ xs[1] = HalfOf(RSub(One, clone_freqs[clone_idx + 1][1]))
        /\ RLt(Zero, xs[1]) /\ RLt(xs[1], xs[2])

\* C4 amended: the emergence sample has half-width 0, center 0 and time
\* (1 - f) * 0.5 before normalization (that time over T in the Clone built);
\* the time is at or after step 0, reaching 0 exactly when f = 1, and
\* strictly before the first observation at 1.
C4_EmergenceSample ==
    Valid(freqs) =>
        /\ pc = "normalize" =>
              /\ ys[1] = Zero /\ ws[1] = Zero
              /\ xs[1] = HalfOf(RSub(One, clone_freqs[clone_idx + 1][1]))
              /\ RLe(Zero, xs[1]) /\ RLt(xs[1], xs[2]) /\ xs[2] = One
              /\ (xs[1] = Zero) <=> (clone_freqs[clone_idx + 1][1] = One)
        /\ \A c \in SubClones :
              /\ clones[c].ys[1] = Zero /\ clones[c].ws[1] = Zero
              /\ RMul(clones[c].xs[1], RInt(NTimePoints))
                    = HalfOf(RSub(One, clone_freqs[c - 1][1]))

C4_Witness ==
    /\ Valid(freqs) /\ pc = "normalize"
    /\ clone_freqs[clone_idx + 1][1] = Half
    /\ xs[1] = Norm(1, 4)

\* C7: for a valid matrix with T time points the first Clone has T + 1
\* samples (xs, ys, ws of equal length); sample 0 is at time 0 with center 0,
\* and sample i+1 has time (i+1)/T, center 0 and half-width tumour_freq[i]/2.
C7_CloneAllSamples ==
    (Valid(freqs) /\ Len(clones) >= 1) =>
        LET c == clones[1]
            T == NTimePoints
        IN /\ Len(c.xs) = T + 1 /\ Len(c.ys) = T + 1 /\ Len(c.ws) = T + 1
           /\ c.xs[1] = Zero /\ c.ys[1] = Zero
           /\ \A j \in 1..T : /\ c.xs[j + 1] = Norm(j, T)
                              /\ c.ys[j + 1] = Zero
                              /\ c.ws[j + 1] = HalfOf(tumour_freq[j])

C7_Witness ==
    /\ Valid(freqs) /\ pc = "returned"
    /\ NTimePoints = 2 /\ NClones = 2
    /\ clones[1].xs = <<Zero, Half, One>>
    /\ clones[1].ws = <<Zero, Half, Norm(1, 4)>>
    /\ clone_freqs[1] # clone_freqs[2]

\* the quantities of the overlap computation at time index r, in closed form
RowSum(r) == SumSeq(Row(r))
RowPurity(r) == tumour_freq[r]
RowM(r) == IF RLe(RowPurity(r), RowSum(r)) THEN RowPurity(r) ELSE RowSum(r)
RowSpacing(r) == IF RLt(RowPurity(r), RowSum(r)) THEN RSub(RowPurity(r), RowSum(r)) ELSE Zero
RowShift(r) == HalfOf(RSub(One, RowM(r)))
RowCum(r, j) ==
    LET fs == Row(r)
        upto == SumSeq(SubSeq(fs, 1, j))
    IN IF j = 1 THEN upto
       ELSE RAdd(upto, RDiv(RMul(RowSpacing(r), SumSeq(SubSeq(fs, 2, j))), SumSeq(Tail(fs))))
RowRawY(r, j) == RSub(RSub(RAdd(RowCum(r, j), RowShift(r)), Half), HalfOf(Row(r)[j]))
LowerEdge(r, j) == RSub(clone_ys[r][j], HalfOf(Row(r)[j]))
UpperEdge(r, j) == RAdd(clone_ys[r][j], HalfOf(Row(r)[j]))

\* C8 as stated: at every time index the stack of sub-clone bands is centred:
\* the lower edge of the first sub-clone is -m/2 and the upper edge of the
\* last is +m/2, m being purity when freqSum >= purity and freqSum otherwise.
C8_StackCentred ==
    \A r \in 1..Len(clone_ys) :
        /\ LowerEdge(r, 1) = RNeg(HalfOf(RowM(r)))
        /\ UpperEdge(r, NClones) = HalfOf(RowM(r))

\* C8 amended: the lower edge of the first sub-clone is -m/2 at every time
\* index; the upper edge of the last sub-clone is +m/2 when freqSum <= purity,
\* or when there are at least two sub-clones and the last one's frequency is
\* at most purity/2 + 1/2 (its center is then not reset to 0 by the guard).
C8_StackCentredUnlessReset ==
    \A r \in 1..Len(clone_ys) :
        /\ LowerEdge(r, 1) = RNeg(HalfOf(RowM(r)))
        /\ (\/ RLe(RowSum(r), RowPurity(r))
            \/ /\ NClones >= 2
               /\ RLe(Row(r)[NClones], RAdd(HalfOf(RowPurity(r)), Half)))
           => UpperEdge(r, NClones) = HalfOf(RowM(r))

C8_Witness ==
    /\ Valid(freqs) /\ pc = "returned" /\ NClones = 2
    /\ RowPurity(1) = Half /\ Row(1) = <<Half, Half>>
    /\ LowerEdge(1, 1) = Norm(-1, 4) /\ UpperEdge(1, 2) = Norm(1, 4)

\* C9: the center stored for sub-clone j at time index r is
\* cum + shift - 0.5 - f/2 when that value minus f/2 is >= -0.5 and 0
\* otherwise; so every observation sample of every sub-clone built has
\* center - halfWidth >= -0.5.
C9_CenterGuarded ==
    /\ \A r \in 1..Len(clone_ys) : \A j \in 1..NClones :
          clone_ys[r][j] = IF RLe(RNeg(Half), RSub(RowRawY(r, j), HalfOf(Row(r)[j])))
                           THEN RowRawY(r, j) ELSE Zero
    /\ \A c \in SubClones : \A j \in 2..Len(clones[c].ys) :
          /\ clones[c].ys[j] = clone_ys[j - 1][c - 1]
          /\ RLe(RNeg(Half), RSub(clones[c].ys[j], clones[c].ws[j]))

C9_Witness ==
    /\ Valid(freqs) /\ pc = "returned" /\ NClones = 2
    /\ RLt(RSub(RowRawY(1, 2), HalfOf(Row(1)[2])), RNeg(Half))
    /\ clones[3].ys[2] = Zero
    /\ clones[2].ys[2] # Zero

\* ----------------------------------------------------- properties of path
Last(s) == s[Len(s)]
OpNames == [j \in 1..Len(ops) |-> ops[j].op]
NCurves == Cardinality({j \in 1..Len(ops) : ops[j].op = "curve_to"})
StartPoint == ops[1].pts[1]
\* the endpoint of the last segment emitted before close_path
BottomEnd == Last(ops[Len(ops) - 1].pts)

\* C5 as stated: for every sample sequence the final point of the bottom
\* edge coincides with the move_to point.
C5_BottomEndsAtStart ==
    ppc = "done" => BottomEnd = StartPoint

\* C5 amended: the final point of the bottom edge is (x0, center0 + halfWidth0),
\* the mirror image of the move_to point (x0, center0 - halfWidth0); the two
\* coincide exactly when the first sample's half-width is 0.
C5_BottomEndsAtMirroredStart ==
    ppc = "done" =>
        /\ StartPoint = Point(samples.xs[1], RSub(samples.ys[1], samples.ws[1]))
        /\ BottomEnd = Point(samples.xs[1], RAdd(samples.ys[1], samples.ws[1]))
        /\ (BottomEnd = StartPoint) <=> (samples.ws[1] = Zero)

C5_Witness ==
    /\ ppc = "done" /\ NSamples = 3
    /\ samples.ws[1] = Zero /\ samples.ws[2] # Zero
    /\ BottomEnd = StartPoint

\* C6 as stated: a sequence of exactly one sample yields move_to, one cubic
\* curve, the connector line and the closing segment.
C6_SingleSampleOneCurve ==
    (ppc = "done" /\ NSamples = 1) =>
        OpNames = <<"move_to", "curve_to", "line_to", "close_path">>

\* C6 amended: a sequence of exactly one sample yields no curve segment:
\* move_to, the connector line and the closing segment; in general n samples
\* yield n - 1 curves, the connector, n - 1 curves and the closing segment.
C6_SegmentCount ==
    ppc = "done" =>
        /\ NSamples = 1 => OpNames = <<"move_to", "line_to", "close_path">>
        /\ NCurves = 2 * (NSamples - 1)
        /\ Len(ops) = 2 * NSamples + 1
        /\ \A j \in 1..Len(ops) :
              ops[j].op = IF j = 1 THEN "move_to"
                          ELSE IF j = NSamples + 1 THEN "line_to"
                          ELSE IF j = 2 * NSamples + 1 THEN "close_path"
                          ELSE "curve_to"

C6_Witness ==
    /\ ppc = "done" /\ NSamples = 1
    /\ samples.ws[1] # Zero
    /\ Len(ops) = 3

\* the point pt of the top edge at sample j, reflected to the bottom edge
Reflect(pt, j) == Point(pt[1], RSub(RMul(RInt(2), samples.ys[j]), pt[2]))
TopSegment(p) == ops[1 + p]
BottomSegment(p) == ops[2 * NSamples + 1 - p]

\* C10: the bottom edge retraces the samples in reverse order; for each
\* adjacent pair (p, p+1) the bottom curve is the top curve of that pair
\* traversed backwards with every y reflected from center - halfWidth to
\* center + halfWidth, both control points at the same horizontal midpoint;
\* both edges have n - 1 curves.
C10_MirrorSymmetric ==
    ppc = "done" =>
        /\ Len(ops) = 2 * NSamples + 1
        /\ \A p \in 1..(NSamples - 1) :
              LET top == TopSegment(p)
                  bot == BottomSegment(p)
                  topStart == Last(ops[p].pts)
                  botStart == Last(ops[2 * NSamples - p].pts)
                  x_mid == HalfOf(RAdd(samples.xs[p], samples.xs[p + 1]))
              IN /\ top.op = "curve_to" /\ bot.op = "curve_to"
                 /\ botStart = Reflect(top.pts[3], p + 1)
                 /\ bot.pts[1] = Reflect(top.pts[2], p + 1)
                 /\ bot.pts[2] = Reflect(top.pts[1], p)
                 /\ bot.pts[3] = Reflect(topStart, p)
                 /\ top.pts[1][1] = x_mid /\ top.pts[2][1] = x_mid
                 /\ bot.pts[1][1] = x_mid /\ bot.pts[2][1] = x_mid
                 /\ top.pts[3] = Point(samples.xs[p + 1],
                                       RSub(samples.ys[p + 1], samples.ws[p + 1]))

C10_Witness ==
    /\ ppc = "done" /\ NSamples = 3
    /\ \A j \in 1..3 : samples.ws[j] # Zero
    /\ samples.xs = <<Zero, One, One>>
    /\ samples.ys[1] # samples.ys[2]
====
